---- MODULE Spec2Model ----
(***************************************************************************)
(* Interpolation search over slices (src/src/interpolation_search.rs) with *)
(* the integer, char and text position estimators                          *)
(* (src/src/interpolation_factor.rs), and the recursive search of          *)
(* src/src/lib.rs on distance_to (src/src/linear.rs) and fraction_of       *)
(* (src/src/scalable.rs).                                                  *)
(* f32 values are modelled bit-exactly for the values the search produces: *)
(* a normal number is a 24-bit significand m and a shift sh, value         *)
(* m / 2^sh, and division and multiplication round to nearest, ties to     *)
(* even, as IEEE-754 binary32 does.                                        *)
(***************************************************************************)
EXTENDS Integers, Sequences, FiniteSets, TLC

VARIABLES arr, target, estimator, first_idx, last_idx, pc, result, iters, reads,
          f_class, data, key_fn, keyed_result, probe

vars == <<arr, target, estimator, first_idx, last_idx, pc, result, iters, reads,
          f_class, data, key_fn, keyed_result, probe>>

----------------------------------------------------------------------------
(* Bounds of the model. *)

MaxLen == 4          \* longest arbitrary (possibly unsorted) sequence
MaxSortedLen == 6    \* longest sorted sequence
MaxVal == 1          \* keys 0..MaxVal, next to the two extremes of i8
MaxDen == 3          \* custom estimators return n/d for n, d in 1..MaxDen
MaxKeyedLen == 3     \* longest slice of (payload, key) pairs
MaxPayload == 1      \* non-key fields 0..MaxPayload
MaxStrLen == 2       \* longest string of the direct calls of the text estimator
MaxIdx == 3          \* window bounds 0..MaxIdx of the direct calls of lerp_idx
IterCap == MaxLen + MaxSortedLen + 2    \* the iteration counter stops here

(* Program constants. *)

I8Min == -128
U8Max == 255
U16Max == 65535
I8Max == 127
MantissaBits == 24

----------------------------------------------------------------------------
(* f32 *)

Pow2(n) == 2 ^ n

F32(cls, neg, m, sh) == [cls |-> cls, neg |-> neg, m |-> m, sh |-> sh]

NaN == F32("nan", FALSE, 0, 0)
Infinity == F32("inf", FALSE, 0, 0)
NegInfinity == F32("inf", TRUE, 0, 0)
Subnormal == F32("sub", FALSE, 0, 0)
NegSubnormal == F32("sub", TRUE, 0, 0)
Zero == F32("zero", FALSE, 0, 0)
NegZero == F32("zero", TRUE, 0, 0)
One == F32("norm", FALSE, Pow2(MantissaBits - 1), MantissaBits - 1)
Half == F32("norm", FALSE, Pow2(MantissaBits - 1), MantissaBits)
Two == F32("norm", FALSE, Pow2(MantissaBits - 1), MantissaBits - 2)
MinusOne == F32("norm", TRUE, Pow2(MantissaBits - 1), MantissaBits - 1)
MinPositive == F32("norm", FALSE, Pow2(MantissaBits - 1), 149)

\* stands for a call that did not return a value
Panicked == F32("panic", FALSE, 0, 0)

is_normal(f) == f.cls = "norm"

\* f > 1.0 for a normal f
GreaterThanOne(f) ==
    /\ f.cls = "norm"
    /\ ~f.neg
    /\ \/ f.sh < MantissaBits - 1
       \/ f.sh = MantissaBits - 1 /\ f.m > Pow2(MantissaBits - 1)

\* f32::clamp(0.0, 1.0) for a zero or a normal number
clamp01(f) ==
    IF f.cls = "norm" /\ f.neg THEN Zero
    ELSE IF GreaterThanOne(f) THEN One
    ELSE f

\* the estimate clamped without the test for non-normal values
normalize_clamp_only(f) == clamp01(f)

normalize(f) ==
    IF ~is_normal(f) /\ f.cls # "zero" THEN Half ELSE clamp01(f)

\* number of binary digits of x, 0 <= x < 2^30
BitLen(x) ==
    CHOOSE b \in 0..30 : x < Pow2(b) /\ (b = 0 \/ Pow2(b - 1) <= x)

\* x / 2^s rounded to the nearest integer, ties to even
RoundShift(x, s) ==
    IF s <= 0 THEN x
    ELSE LET q == x \div Pow2(s)
             r == x % Pow2(s)
             h == Pow2(s - 1)
         IN IF r > h \/ (r = h /\ q % 2 = 1) THEN q + 1 ELSE q

\* <<floor(n * 2^23 / d), remainder>> for d <= n < 2 * d < 2^10, in two
\* stages of 12 and 11 quotient bits
LongDiv(n, d) ==
    LET hi == (n * Pow2(12)) \div d
        r1 == (n * Pow2(12)) % d
        lo == (r1 * Pow2(11)) \div d
        r2 == (r1 * Pow2(11)) % d
    IN <<hi * Pow2(11) + lo, r2>>

\* least t >= 0 with n * 2^t >= d, for 0 < n < 2^9, d < 2^9
ScaleUp(n, d) ==
    CHOOSE t \in 0..9 : n * Pow2(t) >= d /\ (t = 0 \/ n * Pow2(t - 1) < d)

\* greatest u >= 0 with d * 2^u <= n, for 0 < d <= n < 2^9
ScaleDown(n, d) ==
    CHOOSE u \in 0..9 : d * Pow2(u) <= n /\ d * Pow2(u + 1) > n

\* n as f32 / d as f32 for integers 0 <= n, d < 2^9 (exact as f32): the
\* quotient rounded to 24 significant bits, to nearest, ties to even
F32Div(n, d) ==
    IF d = 0 THEN (IF n = 0 THEN NaN ELSE Infinity)
    ELSE IF n = 0 THEN Zero
    ELSE LET t == IF n < d THEN ScaleUp(n, d) ELSE 0
             u == IF n < d THEN 0 ELSE ScaleDown(n, d)
             dd == d * Pow2(u)
             qr == LongDiv(n * Pow2(t), dd)
             up == 2 * qr[2] > dd \/ (2 * qr[2] = dd /\ qr[1] % 2 = 1)
             m == IF up THEN qr[1] + 1 ELSE qr[1]
             sh == MantissaBits - 1 + t - u
         IN IF m = Pow2(MantissaBits)
            THEN F32("norm", FALSE, Pow2(MantissaBits - 1), sh - 1)
            ELSE F32("norm", FALSE, m, sh)

\* (len as f32 * f) as usize, for f a zero or a normal number in (0, 1]
MulAsUsize(len, f) ==
    IF f.cls # "norm" THEN 0
    ELSE LET x == len * f.m
             s == BitLen(x \div Pow2(MantissaBits))    \* bits beyond 24
             m == RoundShift(x, s)
             e == IF s > 0 THEN f.sh - s ELSE f.sh
         IN IF e >= 30 THEN 0
            ELSE IF e >= 0 THEN m \div Pow2(e)
            ELSE m * Pow2(-e)

----------------------------------------------------------------------------
(* Integer position estimator, K = i8 *)

\* the difference taken in i8 arithmetic, wrapping at 8 bits
abs_diff_wrapping(a, b) ==
    LET w == ((b - a + 128) % 256) - 128
    IN IF w < 0 THEN -w ELSE w

abs_diff(a, b) == IF a < b THEN b - a ELSE a - b

\* Ord::clamp, defined for min <= max
clamp(x, min, max) == IF x < min THEN min ELSE IF x > max THEN max ELSE x

interpolation_factor(self, a, b) ==
    IF a = b THEN Half
    ELSE LET mid == clamp(self, a, b)
         IN F32Div(abs_diff(a, mid), abs_diff(a, b))

\* Linear::distance_to: `other - self` for an unsigned type (u8, wrapping in
\* a release build), `self.abs_diff(other)` for a signed one
distance_to(ty, self, other) ==
    IF ty = "u8" THEN (other - self) % (U8Max + 1) ELSE abs_diff(self, other)

\* `other - self` overflows: a panic in a debug build
Overflows(ty, self, other) == ty = "u8" /\ other < self

\* `char as u16`: the low 16 bits of the code point
as_u16(c) == c % (U16Max + 1)

\* `*other as u16 - *self as u16` overflows: a panic in a debug build
CharOverflows(self, other) == other > self /\ as_u16(other) < as_u16(self)

\* Linear<u16>::distance_to of char, the subtraction wrapping at 16 bits as
\* in a release build
char_distance_to(self, other) ==
    IF other > self
    THEN (as_u16(other) - as_u16(self)) % (U16Max + 1)
    ELSE 0

\* the distance divided without the test for a zero span
fraction_of_unchecked(self, other) == F32Div(self, other)

\* Scalable::fraction_of for the unsigned integers
fraction_of(self, other) == IF other = 0 THEN Half ELSE F32Div(self, other)

\* the local `fraction` of the recursive search
fraction(ty, t, first, last) ==
    fraction_of(distance_to(ty, first, t), distance_to(ty, first, last))

\* the estimator of char: the integer estimator on the code points
char_interpolation_factor(self, a, b) ==
    IF a > b THEN Panicked ELSE interpolation_factor(self, a, b)

\* the first position where the target differs from the lower string
chars_interpolation_factor_target(self, a, b) ==
    LET n == IF Len(self) < Len(a) THEN (IF Len(self) < Len(b) THEN Len(self) ELSE Len(b))
             ELSE (IF Len(a) < Len(b) THEN Len(a) ELSE Len(b))
        zipped == [p \in 1..n |-> <<self[p], a[p], b[p]>>]
        filtered == SelectSeq(zipped, LAMBDA t : t[1] # t[2])
    IN IF filtered = <<>> THEN Half
       ELSE char_interpolation_factor(filtered[1][1], filtered[1][2], filtered[1][3])

\* the estimator of Chars, which str and String delegate to; a string is the
\* sequence of its code points
chars_interpolation_factor(self, a, b) ==
    LET n == IF Len(self) < Len(a) THEN (IF Len(self) < Len(b) THEN Len(self) ELSE Len(b))
             ELSE (IF Len(a) < Len(b) THEN Len(a) ELSE Len(b))
        zipped == [p \in 1..n |-> <<self[p], a[p], b[p]>>]
        filtered == SelectSeq(zipped, LAMBDA t : t[2] # t[3])
    IN IF filtered = <<>> THEN Half
       ELSE char_interpolation_factor(filtered[1][1], filtered[1][2], filtered[1][3])

----------------------------------------------------------------------------
(* Search loop *)

Min(a, b) == IF a < b THEN a ELSE b

\* lerp_idx without the final `.min(last - 1)`
lerp_idx_unclamped(first, last, f) ==
    IF first >= last THEN first
    ELSE first + MulAsUsize(last - first, normalize(f))

lerp_idx(first, last, f) ==
    IF first >= last THEN first
    ELSE Min(first + MulAsUsize(last - first, normalize(f)), last - 1)

Ok(i) == [tag |-> "Ok", idx |-> i]
Err(i) == [tag |-> "Err", idx |-> i]
NoResult == [tag |-> "None", idx |-> 0]

\* no direct call of a helper has been made
NoProbe == [op |-> "none"]

\* the key closure read the other field of the pair
key_other_field(e) == IF key_fn = "second" THEN e[1] ELSE e

\* the closure `key`: `|x| x` of interpolation_search, `|pair| &pair.1` of a
\* caller of interpolation_search_by_key
key(e) == IF key_fn = "second" THEN e[2] ELSE e

\* key of the element at 0-based index i
At(i) == key(data[i + 1])


\* outcomes of the match arms
FallbackArm == Err(0)

\* the empty window reported one past its position
EmptyArm_off_by_one(first, last) == Err(first + 1)

EmptyArm(first, last) == Err(first)

\* the target below the window reported at the start of the slice
BelowArm_zero(first, last) == Err(0)

BelowArm(first, last) == Err(first)

\* the arm `[single] if key(single) == target` left out: a matching single
\* element falls through to the last arm
SingleArm_missing(first, last) == FallbackArm

SingleArm(first, last) == Ok(first)

\* the index of the last element instead of the exclusive bound
AboveArm_inclusive(first, last) == Err(last - 1)

\* one past the exclusive bound of the window
AboveArm_beyond(first, last) == Err(last + 1)

AboveArm(first, last) == Err(last)

\* the index relative to the window instead of the slice
EqualArm_relative(first, mid) == Ok(mid - first)

EqualArm(first, mid) == Ok(mid)

\* the candidate treated as an inclusive upper bound
GreaterArm_inclusive(first, last, mid) == <<first, mid - 1>>

\* the two narrowing branches exchanged
GreaterArm_swapped(first, last, mid) == <<mid + 1, last>>

\* the candidate kept in the window
GreaterArm_keep(first, last, mid) == <<first, mid + 1>>

\* the lower bound advanced as well
GreaterArm_both(first, last, mid) == <<first + 1, mid>>

GreaterArm(first, last, mid) == <<first, mid>>

\* the candidate kept in the window
LessArm_keep(first, last, mid) == <<mid, last>>

\* the element after the candidate skipped as well
LessArm_skip_two(first, last, mid) == <<mid + 2, last>>

LessArm(first, last, mid) == <<mid + 1, last>>

\* where the estimate f lies: what normalize has to deal with
Classify(f) ==
    IF f.cls \in {"nan", "inf", "sub"} THEN f.cls
    ELSE IF f.cls = "norm" /\ f.neg THEN "negative"
    ELSE IF GreaterThanOne(f) THEN "above_one"
    ELSE "unit"

Return(r, rd, fc) ==
    /\ pc' = "done"
    /\ result' = r
    /\ reads' = reads \cup rd
    /\ f_class' = fc
    /\ UNCHANGED <<first_idx, last_idx>>

Panic(rd) ==
    /\ pc' = "panic"
    /\ reads' = reads \cup rd
    /\ UNCHANGED <<first_idx, last_idx, result, f_class>>

Window(w, rd, fc) ==
    /\ first_idx' = w[1]
    /\ last_idx' = w[2]
    /\ reads' = reads \cup rd
    /\ f_class' = fc
    /\ UNCHANGED <<pc, result>>

\* the bounds handed to the estimator in the wrong order
EstimatorArgs_swapped == <<target, At(last_idx - 1), At(first_idx)>>

\* receiver and arguments of `target.interpolation_factor(key(first), key(last))`
EstimatorArgs == <<target, At(first_idx), At(last_idx - 1)>>

\* the match without the arm `[single] if key(single) == target`
MatchArm_no_single(first, last) ==
    IF first = last THEN "empty"
    ELSE IF target < At(first) THEN "below"
    ELSE IF At(last - 1) < target THEN "above"
    ELSE IF last - first >= 2 THEN "interpolate"
    ELSE "fallback"

\* the arm `match &self[first_idx..last_idx]` selects, for first <= last
MatchArm(first, last) ==
    IF first = last THEN "empty"
    ELSE IF target < At(first) THEN "below"
    ELSE IF last - first = 1 /\ At(first) = target THEN "single"
    ELSE IF At(last - 1) < target THEN "above"
    ELSE IF last - first >= 2 THEN "interpolate"
    ELSE "fallback"

\* the value the position estimator returns for the current window; custom is
\* the value a user-supplied InterpolationFactor implementation returns
Estimate(custom) ==
    IF estimator = "builtin"
    THEN interpolation_factor(EstimatorArgs[1], EstimatorArgs[2], EstimatorArgs[3])
    ELSE custom

\* the arm `[first, .., last]`; f and mid_idx are the locals of the code
Interpolate(custom) ==
    LET ends == {first_idx, last_idx - 1}
    IN IF estimator = "builtin" /\ EstimatorArgs[2] > EstimatorArgs[3]
       THEN Panic(ends)                     \* clamp asserts min <= max
       ELSE \E f \in {Estimate(custom)} :
            \E mid_idx \in {lerp_idx(first_idx, last_idx, f)} :
               IF mid_idx >= Len(data) THEN Panic(ends \cup {mid_idx})
               ELSE IF At(mid_idx) = target
               THEN Return(EqualArm(first_idx, mid_idx), ends \cup {mid_idx},
                           Classify(f))
               ELSE IF At(mid_idx) > target
               THEN Window(GreaterArm(first_idx, last_idx, mid_idx),
                           ends \cup {mid_idx}, Classify(f))
               ELSE Window(LessArm(first_idx, last_idx, mid_idx),
                           ends \cup {mid_idx}, Classify(f))

\* one iteration of the loop of interpolation_search_by_key
Iteration(custom) ==
    /\ pc = "loop"
    /\ iters' = Min(iters + 1, IterCap)
    /\ UNCHANGED <<arr, target, estimator, data, key_fn, keyed_result, probe>>
    /\ IF first_idx > last_idx \/ last_idx > Len(data) THEN Panic({})
       ELSE \E arm \in {MatchArm(first_idx, last_idx)} :
          IF arm = "empty"
          THEN Return(EmptyArm(first_idx, last_idx), {}, f_class)
          ELSE IF arm = "below"
          THEN Return(BelowArm(first_idx, last_idx), {first_idx}, f_class)
          ELSE IF arm = "single"
          THEN Return(SingleArm(first_idx, last_idx), {first_idx}, f_class)
          ELSE IF arm = "above"
          THEN Return(AboveArm(first_idx, last_idx),
                      {first_idx, last_idx - 1}, f_class)
          ELSE IF arm = "interpolate"
          THEN Interpolate(custom)
          ELSE Return(FallbackArm, {first_idx}, f_class)

----------------------------------------------------------------------------
(* Recursive search of lib.rs, on distance_to and fraction_of *)

lerp_len(len, f) ==
    IF len <= 1 THEN 0 ELSE Min(MulAsUsize(len, normalize(f)), len - 1)

\* only a found index of the right sub-slice shifted
ShiftRight_ok_only(r, mid_idx) ==
    IF r.tag = "Ok" THEN Ok(r.idx + mid_idx + 1) ELSE r

\* `.map(|idx| idx + mid_idx + 1).map_err(|idx| idx + mid_idx + 1)`
ShiftRight(r, mid_idx) ==
    IF r.tag = "Ok" THEN Ok(r.idx + mid_idx + 1) ELSE Err(r.idx + mid_idx + 1)

\* the arm `match self` selects in lib.rs
match_self(s, t) ==
    IF s = <<>> THEN "empty"
    ELSE IF t < s[1] THEN "below"
    ELSE IF Len(s) = 1 /\ s[1] = t THEN "single"
    ELSE IF s[Len(s)] < t THEN "above"
    ELSE IF Len(s) >= 2 THEN "interpolate"
    ELSE "fallback"

\* the call unwound by a panic
Unwound == [tag |-> "Panic", idx |-> 0]

\* interpolation_search of lib.rs on the slice s of keys of type ty, in a
\* debug or a release build: the value it returns and the trace of the arms
\* taken, with "overflow" where a subtraction of distance_to overflowed
RECURSIVE recursive_run(_, _, _, _)
recursive_run(build, ty, s, t) ==
    LET arm == match_self(s, t)
        ovf == IF Overflows(ty, s[1], t) \/ Overflows(ty, s[1], s[Len(s)])
               THEN {"overflow"} ELSE {}
    IN IF arm = "empty" THEN [ret |-> Err(0), trace |-> {arm}]
       ELSE IF arm = "below" THEN [ret |-> Err(0), trace |-> {arm}]
       ELSE IF arm = "single" THEN [ret |-> Ok(0), trace |-> {arm}]
       ELSE IF arm = "above" THEN [ret |-> Err(Len(s)), trace |-> {arm}]
       ELSE IF arm = "fallback" THEN [ret |-> Err(0), trace |-> {arm}]
       ELSE IF build = "debug" /\ ovf # {}
       THEN [ret |-> Unwound, trace |-> {arm} \cup ovf]
       ELSE LET mid_idx == lerp_len(Len(s), fraction(ty, t, s[1], s[Len(s)]))
                left == SubSeq(s, 1, mid_idx)
                mid == s[mid_idx + 1]
                right == SubSeq(s, mid_idx + 2, Len(s))
                l == recursive_run(build, ty, left, t)
                r == recursive_run(build, ty, right, t)
            IN IF mid = t
               THEN [ret |-> Ok(mid_idx), trace |-> {arm} \cup ovf]
               ELSE IF mid > t
               THEN [ret |-> l.ret, trace |-> l.trace \cup {arm} \cup ovf]
               ELSE [ret |-> IF r.ret = Unwound THEN Unwound
                             ELSE ShiftRight(r.ret, mid_idx),
                     trace |-> r.trace \cup {arm} \cup ovf]

\* the value interpolation_search of lib.rs returns
recursive_search(ty, s, t) == recursive_run("release", ty, s, t).ret

----------------------------------------------------------------------------
(* Inputs *)

Keys == (0..MaxVal) \cup {I8Min, I8Max}

IsSorted(s) == \A i \in 1..Len(s) - 1 : s[i] <= s[i + 1]

SeqsUpTo(n) == UNION {[1..k -> Keys] : k \in 0..n}

SortedSeqsUpTo(n) == {s \in SeqsUpTo(n) : IsSorted(s)}

Inputs == SeqsUpTo(MaxLen) \cup SortedSeqsUpTo(MaxSortedLen)

\* the slice and the targets of the documentation example
DocExample == <<0, 1, 1, 1, 1, 2, 3, 5, 8, 13, 21, 34, 55>>

DocTargets == {13, 14, 4, 100, 1}

\* the slice of the documentation example of interpolation_search_by_key
DocKeyedExample ==
    <<<<0, 0>>, <<2, 1>>, <<4, 1>>, <<5, 1>>, <<3, 1>>, <<1, 2>>, <<2, 3>>,
      <<4, 5>>, <<5, 8>>, <<3, 13>>, <<1, 21>>, <<2, 34>>, <<4, 55>>>>

\* the keys of a slice of pairs, in order
Projected(s) == [i \in 1..Len(s) |-> s[i][2]]

\* slices of (payload, key) pairs sorted by key
KeyedInputs ==
    {s \in UNION {[1..k -> (0..MaxPayload) \X Keys] : k \in 0..MaxKeyedLen} :
        IsSorted(Projected(s))}

\* the code points of 'a', 'c' and 'e' and the strings over them
Letters == {97, 99, 101}

Strings == UNION {[1..k -> Letters] : k \in 0..MaxStrLen}

\* the slice and the targets of test_against_binary_search of lib.rs
RecursiveTestArr == <<1, 2, 3, 3, 4, 5, 6, 6, 6, 7, 8, 8, 8, 8, 9, 10>>

RecursiveTestTargets == 0..11

\* code points of the direct calls of distance_to on char: 'a', 'd', the
\* last one of the basic plane and three beyond it
CharSamples == {97, 100, 65535, 65536, 65633, 1114111}

\* the integer types of the direct estimator calls and their values
IntTypes == {"i8", "u8"}

IntSamples(ty) ==
    IF ty = "i8" THEN Keys \cup {-10, -5} ELSE (0..MaxVal) \cup {U8Max}

\* arbitrary slices of u8 keys
U8Inputs == UNION {[1..k -> IntSamples("u8")] : k \in 0..MaxLen}

\* values a custom estimator may return
F32Samples ==
    {NaN, Infinity, NegInfinity, Subnormal, NegSubnormal, Zero, NegZero,
     One, Two, MinusOne, MinPositive}
    \cup {F32Div(n, d) : n \in 1..MaxDen, d \in 2..MaxDen}

\* the largest f32 below 9/10
JustBelowNineTenths == F32("norm", FALSE, 15099494, 24)

\* windows and estimates of the direct calls of lerp_idx
LerpWindows ==
    ((0..MaxIdx) \X (0..MaxIdx)) \cup {<<0, 10>>, <<5, 15>>, <<10, 5>>}

LerpSamples ==
    F32Samples \cup {F32Div(1, 4), F32Div(3, 4), JustBelowNineTenths}

----------------------------------------------------------------------------
(* Specification *)

\* before the call
Init ==
    /\ arr = <<>>
    /\ target = 0
    /\ estimator = "builtin"
    /\ first_idx = 0
    /\ last_idx = 0
    /\ pc = "idle"
    /\ result = NoResult
    /\ iters = 0
    /\ reads = {}
    /\ f_class = "none"
    /\ data = <<>>
    /\ key_fn = "identity"
    /\ keyed_result = NoResult
    /\ probe = NoProbe

\* a caller invokes interpolation_search_by_key on a slice of i8 keys, with
\* the integer estimator or with an estimator of its own
CallWith(slices, targets, estimators) ==
    /\ pc = "idle"
    /\ arr' \in slices
    /\ target' \in targets
    /\ estimator' \in estimators
    /\ data' = arr'
    /\ first_idx' = 0
    /\ last_idx' = Len(data')
    /\ pc' = "loop"
    /\ UNCHANGED <<result, iters, reads, f_class, key_fn, keyed_result, probe>>

CallOn(slices) == CallWith(slices, Keys, {"builtin", "custom"})

Call == CallOn(Inputs)

\* a direct call of a helper returns to the caller
Returned(p) ==
    /\ pc = "idle"
    /\ pc' = "returned"
    /\ probe' = p
    /\ UNCHANGED <<arr, target, estimator, first_idx, last_idx, result, iters,
                   reads, f_class, data, key_fn, keyed_result>>

\* a caller invokes lerp_idx directly
CallLerpIdx ==
    /\ pc = "idle"
    /\ \E w \in LerpWindows, f \in LerpSamples :
        Returned([op |-> "lerp_idx", first |-> w[1], last |-> w[2], f |-> f,
                  ret |-> lerp_idx(w[1], w[2], f)])

\* a caller invokes the estimator of str directly
CallStrInterpolationFactor ==
    /\ pc = "idle"
    /\ \E self \in Strings, a \in Strings, b \in Strings :
        Returned([op |-> "str_interpolation_factor",
                  self |-> self, a |-> a, b |-> b,
                  ret |-> chars_interpolation_factor(self, a, b)])

\* a caller composes distance_to and fraction_of as the recursive search
\* does, in a debug or a release build
CallFractionOf ==
    /\ pc = "idle"
    /\ \E ty \in IntTypes, build \in {"debug", "release"} :
        \E self \in IntSamples(ty), a \in IntSamples(ty), b \in IntSamples(ty) :
            Returned([op |-> "fraction_of", ty |-> ty,
                      self |-> self, a |-> a, b |-> b,
                      ret |-> IF /\ build = "debug"
                                 /\ Overflows(ty, a, self) \/ Overflows(ty, a, b)
                              THEN Panicked
                              ELSE fraction(ty, self, a, b)])

\* a caller invokes the recursive interpolation_search of lib.rs on i8 keys
CallRecursiveWith(ty, slices, targets) ==
    /\ pc = "idle"
    /\ arr' \in slices
    /\ target' \in targets
    /\ data' = arr'
    /\ \E build \in {"debug", "release"} :
          \E run \in {recursive_run(build, ty, arr', target')} :
             probe' = [op |-> "recursive_search", ty |-> ty,
                       ret |-> run.ret, trace |-> run.trace]
    /\ pc' = "returned"
    /\ UNCHANGED <<estimator, first_idx, last_idx, result, iters, reads,
                   f_class, key_fn, keyed_result>>

CallRecursive ==
    \/ CallRecursiveWith("i8", Inputs, Keys)
    \/ CallRecursiveWith("i8", {RecursiveTestArr}, RecursiveTestTargets)
    \/ CallRecursiveWith("u8", U8Inputs, IntSamples("u8"))

\* a caller invokes distance_to on two chars, in a debug or a release build
CallCharDistanceTo ==
    /\ pc = "idle"
    /\ \E self \in CharSamples, other \in CharSamples,
          build \in {"debug", "release"} :
        LET panics == build = "debug" /\ CharOverflows(self, other)
        IN Returned([op |-> "char_distance_to", self |-> self, other |-> other,
                     panicked |-> panics,
                     ret |-> IF panics THEN 0 ELSE char_distance_to(self, other)])

\* a caller invokes the integer estimator directly; clamp panics when a > b
CallInterpolationFactor ==
    /\ pc = "idle"
    /\ \E ty \in IntTypes :
        \E self \in IntSamples(ty), a \in IntSamples(ty), b \in IntSamples(ty) :
            Returned([op |-> "interpolation_factor", ty |-> ty,
                      self |-> self, a |-> a, b |-> b,
                      ret |-> IF a > b THEN Panicked
                              ELSE interpolation_factor(self, a, b)])

\* the calls of the documentation example of interpolation_search
CallDocExample == CallWith({DocExample}, DocTargets, {"builtin"})

\* a caller invokes interpolation_search_by_key on a slice of pairs with
\* the closure that selects the second field
CallByKeyWith(slices, targets) ==
    /\ pc = "idle"
    /\ data' \in slices
    /\ arr' = Projected(data')
    /\ target' \in targets
    /\ estimator' = "builtin"
    /\ key_fn' = "second"
    /\ first_idx' = 0
    /\ last_idx' = Len(data')
    /\ pc' = "loop"
    /\ UNCHANGED <<result, iters, reads, f_class, keyed_result, probe>>

CallByKey ==
    \/ CallByKeyWith(KeyedInputs, Keys)
    \/ CallByKeyWith({DocKeyedExample}, DocTargets)

\* after the keyed search returned, the caller invokes interpolation_search
\* on the keys alone
CallProjected ==
    /\ pc = "done"
    /\ key_fn = "second"
    /\ data' = arr
    /\ key_fn' = "identity"
    /\ keyed_result' = result
    /\ result' = NoResult
    /\ first_idx' = 0
    /\ last_idx' = Len(arr)
    /\ pc' = "loop"
    /\ iters' = 0
    /\ reads' = {}
    /\ f_class' = "none"
    /\ UNCHANGED <<arr, target, estimator, probe>>

\* the same call on the arbitrary sequences alone
CallArbitrary == CallOn(SeqsUpTo(MaxLen))

SearchBuiltin == estimator = "builtin" /\ Iteration(Zero)

SearchCustom == estimator = "custom" /\ \E f \in F32Samples : Iteration(f)

Next ==
    \/ Call
    \/ CallDocExample
    \/ CallByKey
    \/ CallProjected
    \/ CallInterpolationFactor
    \/ CallLerpIdx
    \/ CallStrInterpolationFactor
    \/ CallFractionOf
    \/ CallRecursive
    \/ CallCharDistanceTo
    \/ SearchBuiltin
    \/ SearchCustom

Spec == Init /\ [][Next]_vars

NextArbitrary == CallArbitrary \/ SearchBuiltin \/ SearchCustom

\* the loop runs to completion once the function is called; checked on the
\* arbitrary sequences, sorted or not
FairSpec ==
    Init /\ [][NextArbitrary]_vars /\ WF_vars(SearchBuiltin \/ SearchCustom)

----------------------------------------------------------------------------
(* Reference: what a binary search reports *)

Present == \E i \in 1..Len(arr) : arr[i] = target

\* number of elements strictly less than the target
InsertionPoint == Cardinality({i \in 1..Len(arr) : arr[i] < target})

Found ==
    result.tag = "Ok" /\ result.idx \in 0..Len(arr) - 1 /\ arr[result.idx + 1] = target

Max(a, b) == IF a > b THEN a ELSE b

RECURSIVE CeilLog2(_)
CeilLog2(n) == IF n <= 1 THEN 0 ELSE 1 + CeilLog2((n + 1) \div 2)

----------------------------------------------------------------------------
(* Properties *)

\* C1: on a sorted sequence that does not contain the target, the search with
\* the integer estimator returns Err(i), i the number of elements strictly
\* less than the target (the insertion point of a binary search).
C1_AbsentInsertionPoint ==
    (estimator = "builtin" /\ IsSorted(arr) /\ ~Present /\ pc \in {"done", "panic"})
        => (pc = "done" /\ result = Err(InsertionPoint))

C1_Witness ==
    /\ estimator = "builtin" /\ IsSorted(arr) /\ ~Present
    /\ pc = "done" /\ iters >= 3
    /\ result.tag = "Err" /\ result.idx \in 1..Len(arr) - 1

\* C2: on a sorted sequence that contains the target, the search returns
\* Ok(i) with 0 <= i < len and sequence[i] = target, never Err.
C2_PresentFound ==
    (estimator = "builtin" /\ IsSorted(arr) /\ Present /\ pc \in {"done", "panic"})
        => (pc = "done" /\ Found)

C2_Witness ==
    /\ estimator = "builtin" /\ IsSorted(arr) /\ Present
    /\ pc = "done" /\ iters >= 3 /\ Found /\ result.idx > 0

\* C3: the loop terminates for every input, sorted or not, and every value
\* the estimator returns: a return is eventually reached, and every iteration
\* that does not return strictly decreases last_idx - first_idx.
C3_Terminates ==
    /\ (pc = "loop") ~> (pc = "done")
    /\ [][(pc = "loop" /\ pc' = "loop")
            => last_idx' - first_idx' < last_idx - first_idx]_vars

C3_Witness ==
    /\ ~IsSorted(arr) /\ estimator = "custom"
    /\ pc = "done" /\ iters >= 3
    /\ f_class \in {"nan", "inf", "sub", "negative", "above_one"}

C5_InBounds ==
    /\ pc # "panic"
    /\ 0 <= first_idx /\ first_idx <= last_idx /\ last_idx <= Len(arr)
    /\ \A i \in reads : 0 <= i /\ i < Len(arr)

C5_Witness ==
    /\ ~IsSorted(arr) /\ pc = "done" /\ iters >= 2
    /\ Len(arr) - 1 \in reads /\ Cardinality(reads) >= 3

\* C6: on a sorted sequence the result does not depend on the estimator: with
\* an estimator returning any f32 (in or out of [0,1], NaN, infinite) at each
\* iteration the search returns Ok(i) with sequence[i] = target for a present
\* target and Err(insertion point) for an absent one.
C6_EstimatorIndependent ==
    (estimator = "custom" /\ IsSorted(arr) /\ pc \in {"done", "panic"})
        => /\ pc = "done"
           /\ Present => Found
           /\ ~Present => result = Err(InsertionPoint)

C6_Witness ==
    /\ estimator = "custom" /\ IsSorted(arr) /\ pc = "done"
    /\ f_class \in {"nan", "inf", "negative", "above_one"}
    /\ iters >= 3 /\ Len(arr) >= 3

\* C7: searching an empty sequence returns Err(0) for every target.
C7_Empty ==
    (Len(arr) = 0 /\ pc \in {"done", "panic"}) => (pc = "done" /\ result = Err(0))

C7_Witness == Len(arr) = 0 /\ pc = "done" /\ result = Err(0)

\* C8: searching [x] for t returns Ok(0) when t = x, Err(0) when t < x and
\* Err(1) when t > x.
C8_Single ==
    (Len(arr) = 1 /\ pc \in {"done", "panic"})
        => /\ pc = "done"
           /\ target = arr[1] => result = Ok(0)
           /\ target < arr[1] => result = Err(0)
           /\ target > arr[1] => result = Err(1)

C8_Witness == Len(arr) = 1 /\ pc = "done" /\ target = arr[1] /\ result = Ok(0)

\* C9: searching k >= 1 identical elements for that value returns Ok(i) with
\* 0 <= i < k.
C9_Repeating ==
    (Len(arr) >= 1 /\ (\A i \in 1..Len(arr) : arr[i] = target) /\ pc \in {"done", "panic"})
        => (pc = "done" /\ result.tag = "Ok" /\ result.idx \in 0..Len(arr) - 1)

C9_Witness ==
    /\ Len(arr) >= 3 /\ \A i \in 1..Len(arr) : arr[i] = target
    /\ pc = "done" /\ result.tag = "Ok" /\ result.idx >= 1

\* C10: on a non-empty sorted sequence a target smaller than every element
\* yields Err(0) and a target greater than every element yields Err(len).
C10_OutOfRange ==
    (Len(arr) >= 1 /\ IsSorted(arr) /\ pc \in {"done", "panic"})
        => /\ pc = "done"
           /\ (\A i \in 1..Len(arr) : target < arr[i]) => result = Err(0)
           /\ (\A i \in 1..Len(arr) : target > arr[i]) => result = Err(Len(arr))

C10_Witness ==
    /\ Len(arr) >= 2 /\ IsSorted(arr) /\ pc = "done"
    /\ \A i \in 1..Len(arr) : target > arr[i]
    /\ result = Err(Len(arr))

\* C11: on the documentation example [0, 1, 1, 1, 1, 2, 3, 5, 8, 13, 21, 34, 55]
\* the search returns Ok(9) for 13, Err(10) for 14, Err(7) for 4, Err(13) for
\* 100, and Ok(i) with 1 <= i <= 4 for 1.
C11_DocExample ==
    (arr = DocExample /\ pc \in {"done", "panic"})
        => /\ pc = "done"
           /\ target = 13 => result = Ok(9)
           /\ target = 14 => result = Err(10)
           /\ target = 4 => result = Err(7)
           /\ target = 100 => result = Err(13)
           /\ target = 1 => (result.tag = "Ok" /\ result.idx \in 1..4)

C11_Witness ==
    /\ arr = DocExample /\ pc = "done" /\ target = 14
    /\ result = Err(10) /\ iters >= 2

\* C12: interpolation_search_by_key on a slice sorted by key returns exactly
\* what interpolation_search returns on the sequence of the keys; the
\* non-key fields of the elements do not influence the result.
C12_ByKeyEquivalent ==
    /\ (key_fn = "second" /\ pc \in {"done", "panic"}) => pc = "done"
    /\ (keyed_result # NoResult /\ pc \in {"done", "panic"})
           => (pc = "done" /\ result = keyed_result)

C12_Witness ==
    /\ keyed_result # NoResult /\ pc = "done" /\ result = keyed_result
    /\ arr = Projected(DocKeyedExample) /\ target = 13 /\ result = Ok(9)

\* a value in the closed interval [0, 1]
InUnit(f) == f.cls = "zero" \/ (f.cls = "norm" /\ ~f.neg /\ ~GreaterThanOne(f))

C14_WindowInvariant ==
    (IsSorted(arr) /\ pc \in {"loop", "done"})
        => \A i \in 0..Len(arr) - 1 :
              /\ i < first_idx => arr[i + 1] < target
              /\ i >= last_idx => arr[i + 1] > target

C14_Witness ==
    /\ IsSorted(arr) /\ pc = "done" /\ result.tag = "Err"
    /\ first_idx > 0 /\ last_idx < Len(arr)

\* C15: across every iteration that does not return, first_idx never
\* decreases, last_idx never increases and exactly one of the two changes, so
\* the new window is a strict sub-range of the old one.
C15_MonotonicNarrowing ==
    [][(pc = "loop" /\ pc' = "loop")
          => \/ first_idx' > first_idx /\ last_idx' = last_idx
             \/ first_idx' = first_idx /\ last_idx' < last_idx]_vars

C15_Witness ==
    /\ pc = "loop" /\ iters >= 2
    /\ first_idx > 0 /\ last_idx < Len(arr) /\ first_idx < last_idx

\* C16: for any input, sorted or not, and any estimator value the window
\* left by a narrowing step is non-empty, so the loop meets an empty window
\* only when the slice itself is empty.
C16_NonEmptyWindow ==
    pc = "loop" => (first_idx < last_idx \/ Len(arr) = 0)

C16_Witness ==
    /\ pc = "loop" /\ ~IsSorted(arr) /\ estimator = "custom"
    /\ iters >= 2 /\ last_idx - first_idx = 1

\* the estimate lerp_idx is said to behave as: 0.5 for NaN, the infinities
\* and subnormal values, 0 for negative values, 1 for values above 1
BehavesAs(f) ==
    IF Classify(f) \in {"nan", "inf", "sub"} THEN Half
    ELSE IF Classify(f) = "negative" THEN Zero
    ELSE IF Classify(f) = "above_one" THEN One
    ELSE f

\* floor(len * f) in exact arithmetic, for f in [0, 1]
ExactFloor(len, f) ==
    IF f.cls # "norm" \/ f.sh >= 31 THEN 0 ELSE (len * f.m) \div Pow2(f.sh)

LexLE(x, y) ==
    LET n == Min(Len(x), Len(y))
        D == {p \in 1..n : x[p] # y[p]}
    IN IF D = {} THEN Len(x) <= Len(y)
       ELSE \E p \in D : (\A q \in D : p <= q) /\ x[p] < y[p]

\* C18: the text estimator looks at the positions all three strings have; at
\* the first position p where low and high differ it returns the character
\* estimator of (target[p], low[p], high[p]), and 0.5 if there is no such
\* position; for low <= target <= high the result is within [0, 1].
C18_TextFactor ==
    probe.op = "str_interpolation_factor"
        => LET n == Min(Len(probe.self), Min(Len(probe.a), Len(probe.b)))
               D == {p \in 1..n : probe.a[p] # probe.b[p]}
           IN /\ D = {} => probe.ret = Half
              /\ \A p \in D :
                    (\A q \in D : p <= q)
                        => probe.ret = char_interpolation_factor(
                                           probe.self[p], probe.a[p], probe.b[p])
              /\ (LexLE(probe.a, probe.self) /\ LexLE(probe.self, probe.b))
                    => InUnit(probe.ret)
              /\ (probe.self = <<99, 99>> /\ probe.a = <<97>> /\ probe.b = <<101>>)
                    => probe.ret = Half
              /\ (probe.self = <<99>> /\ probe.a = <<97, 99>>
                                     /\ probe.b = <<99, 101>>)
                    => probe.ret = One

C18_Witness ==
    /\ probe.op = "str_interpolation_factor"
    /\ probe.a = <<97, 97>> /\ probe.self = <<97, 99>> /\ probe.b = <<97, 101>>
    /\ probe.ret = Half

\* C19: for an integer triple low <= target <= high the composition
\* low.distance_to(target).fraction_of(low.distance_to(high)) returns the
\* value target.interpolation_factor(low, high) returns, 0.5 for low = high
\* included.
C19_TwoPrimitives ==
    (probe.op = "fraction_of" /\ probe.a <= probe.self /\ probe.self <= probe.b)
        => /\ probe.ret = interpolation_factor(probe.self, probe.a, probe.b)
           /\ probe.a = probe.b => probe.ret = Half

C19_Witness ==
    /\ probe.op = "fraction_of" /\ probe.ty = "i8"
    /\ probe.a = I8Min /\ probe.self = 0 /\ probe.b = I8Max
    /\ probe.ret = interpolation_factor(0, I8Min, I8Max)
    /\ probe.ret = F32("norm", FALSE, 8421505, 24)

\* C20: on a sorted integer slice the recursive search of lib.rs agrees with
\* a binary search: Ok(i) with slice[i] = target when the target is present,
\* Err(insertion point) otherwise; results of the right sub-slice are shifted
\* by mid_idx + 1 and results of the left one are not, so the index refers to
\* the whole slice.
C20_RecursiveAgrees ==
    (probe.op = "recursive_search" /\ IsSorted(arr))
        => /\ Present => /\ probe.ret.tag = "Ok"
                         /\ probe.ret.idx \in 0..Len(arr) - 1
                         /\ arr[probe.ret.idx + 1] = target
           /\ ~Present => probe.ret = Err(InsertionPoint)

C20_Witness ==
    /\ probe.op = "recursive_search" /\ IsSorted(arr) /\ Len(arr) >= 4
    /\ ~Present /\ probe.ret.tag = "Err" /\ probe.ret.idx \in 2..Len(arr) - 1

\* C21: for all characters a and b, a.distance_to(b) returns
\* codepoint(b) - codepoint(a) when b > a and 0 otherwise, without underflow
\* or wrap-around, code points above 0xFFFF included.
C21_CharDistance ==
    probe.op = "char_distance_to"
        => /\ ~probe.panicked
           /\ probe.ret = IF probe.other > probe.self
                          THEN probe.other - probe.self
                          ELSE 0

\* the loop is about to match a window that lies within the slice
Matching == pc = "loop" /\ first_idx <= last_idx /\ last_idx <= Len(data)

\* C22: for any input, sorted or not, the search calls the estimator only
\* with key(first) <= target <= key(last), so the clamp of the integer
\* estimator never sees min > max, and in the recursive search no
\* subtraction of distance_to on an unsigned type overflows.
C22_EstimatorArgsOrdered ==
    /\ (Matching /\ MatchArm(first_idx, last_idx) = "interpolate")
          => /\ EstimatorArgs[2] <= EstimatorArgs[1]
             /\ EstimatorArgs[1] <= EstimatorArgs[3]
    /\ probe.op = "recursive_search"
          => (probe.ret # Unwound /\ "overflow" \notin probe.trace)

C22_Witness ==
    /\ Matching /\ MatchArm(first_idx, last_idx) = "interpolate"
    /\ ~IsSorted(arr) /\ estimator = "builtin" /\ iters >= 1

\* C23: the arm `[_] => Err(0)` is never taken, for sorted and unsorted
\* input: a window of one element matches one of the arms before it, in the
\* loop and in the recursive search.
C23_FallbackUnreachable ==
    /\ Matching => MatchArm(first_idx, last_idx) # "fallback"
    /\ probe.op = "recursive_search" => "fallback" \notin probe.trace

C23_Witness ==
    /\ Matching /\ last_idx - first_idx = 1 /\ iters >= 1 /\ ~IsSorted(arr)
    /\ MatchArm(first_idx, last_idx) = "single"

\* C24: on arbitrary input, sorted or not, a returned Ok(i) has i < len and
\* slice[i] = target, and a returned Err(i) has 0 <= i <= len.
C24_SoundOnArbitrary ==
    pc = "done"
        => /\ result.tag \in {"Ok", "Err"}
           /\ result.tag = "Ok"
                => (result.idx \in 0..Len(arr) - 1 /\ arr[result.idx + 1] = target)
           /\ result.tag = "Err" => result.idx \in 0..Len(arr)

C24_Witness ==
    /\ pc = "done" /\ ~IsSorted(arr) /\ estimator = "custom"
    /\ result.tag = "Err" /\ result.idx \in 1..Len(arr) - 1 /\ iters >= 2

====
